---- MODULE Spec2Model ----
(***************************************************************************)
(* A model of the botlist.space API client: the Client facade              *)
(* (lib/Client.js, here src/unnamed/part_000) and the Bot entity wrapper   *)
(* (src/lib/Structures/Bot.js).                                            *)
(*                                                                         *)
(* JavaScript values are records [k, n, s, a]: k is the kind, n the        *)
(* integer part, s the string, a the array elements.  A number i + 0.5 is  *)
(* Half(i).  JSON objects are TLA+ records; a property that is not in the  *)
(* DOMAIN of the record reads as undefined.                                *)
(***************************************************************************)
EXTENDS Integers, Sequences, FiniteSets, Bags, TLC

VARIABLES inflight, last, raw, built

vars == <<inflight, last, raw, built>>

(***************************************************************************)
(* Bounds of the model.                                                    *)
(***************************************************************************)
MaxInflight == 2
MaxPage == 2
MaxItems == 2
MaxOwners == 2
MaxAbsent == 1

(***************************************************************************)
(* JavaScript values.                                                      *)
(***************************************************************************)
Undefined == [k |-> "undefined", n |-> 0, s |-> "", a |-> <<>>]
Null == [k |-> "null", n |-> 0, s |-> "", a |-> <<>>]
NaN == [k |-> "NaN", n |-> 0, s |-> "", a |-> <<>>]
Num(i) == [k |-> "number", n |-> i, s |-> "", a |-> <<>>]
Half(i) == [k |-> "half", n |-> i, s |-> "", a |-> <<>>]
Str(t) == [k |-> "string", n |-> 0, s |-> t, a |-> <<>>]
Bool(b) == [k |-> "boolean", n |-> IF b THEN 1 ELSE 0, s |-> "", a |-> <<>>]
Arr(xs) == [k |-> "array", n |-> 0, s |-> "", a |-> xs]
InvalidDate == [k |-> "invalid date", n |-> 0, s |-> "", a |-> <<>>]
\* A Date: its time value is a[1] days and n milliseconds (a count of
\* milliseconds alone exceeds the integers of the model for a date of this
\* century).
DateAt(days, ms) == [k |-> "date", n |-> ms, s |-> "", a |-> <<days>>]

\* The Date whose time value is ms milliseconds.
Date(ms) == DateAt(0, ms)

\* typeof v
TypeOf(v) ==
  CASE v.k \in {"number", "half", "NaN"} -> "number"
    [] v.k = "string" -> "string"
    [] v.k = "boolean" -> "boolean"
    [] v.k = "undefined" -> "undefined"
    [] OTHER -> "object"

\* Array.isArray(v)
IsArray(v) == v.k = "array"

\* v < 1 for a v whose typeof is "number": NaN compares false with everything,
\* and i + 0.5 < 1 exactly when i < 1.
LessThanOne(v) == v.k # "NaN" /\ v.n < 1

\* The truth value of v in a condition (as in v || w, !v).
Truthy(v) ==
  CASE v.k = "number" -> v.n # 0
    [] v.k = "half" -> TRUE
    [] v.k = "string" -> v.s # ""
    [] v.k = "boolean" -> v.n = 1
    [] v.k = "array" -> TRUE
    [] OTHER -> FALSE

\* A parameter with a default value: an argument that is undefined (or
\* omitted) takes the default.
Default(arg, dflt) == IF arg = Undefined THEN dflt ELSE arg

\* obj.name for a JSON object obj whose property, when present, is a value.
Prop(obj, name) == IF name \in DOMAIN obj THEN obj[name] ELSE Undefined

Has(obj, name) == name \in DOMAIN obj

(***************************************************************************)
(* Errors.                                                                 *)
(***************************************************************************)
TypeError == [type |-> "Error", name |-> "TypeError", status |-> 0]
SyntaxError == [type |-> "Error", name |-> "SyntaxError", status |-> 0]
\* What snekfetch rejects with: a network failure (status 0) or a non-2xx
\* response.
TransportError(status) == [type |-> "Error", name |-> "TransportError", status |-> status]

HTTPError(error) == [type |-> "HTTPError", error |-> error]

(***************************************************************************)
(* Collection: an insertion-ordered map, a sequence of [key, val] entries  *)
(* with distinct keys.                                                     *)
(***************************************************************************)
EmptyCollection == <<>>

CollectionHas(c, key) == \E i \in 1..Len(c) : c[i].key = key

CollectionSet(c, key, val) ==
  IF CollectionHas(c, key)
  THEN [i \in 1..Len(c) |-> IF c[i].key = key THEN [key |-> key, val |-> val] ELSE c[i]]
  ELSE Append(c, [key |-> key, val |-> val])

CollectionArray(c) == [i \in 1..Len(c) |-> c[i].val]

CollectionKeyArray(c) == [i \in 1..Len(c) |-> c[i].key]

(***************************************************************************)
(* Entity wrappers.                                                        *)
(***************************************************************************)
UserNew(user) == [type |-> "User", raw |-> user]

UpvoteNew(upvote) == [thrown |-> FALSE, value |-> [type |-> "Upvote", raw |-> upvote]]

StatisticsNew(body) == [type |-> "Statistics", raw |-> body]

PaginationNew(body) == [type |-> "Pagination", entries |-> EmptyCollection]

\* The loop of the Bot constructor from index i on: owners.set(owners[i].id,
\* new User(owners[i])).
RECURSIVE BotOwnersFrom(_, _, _)
BotOwnersFrom(owners, i, acc) ==
  IF i > Len(owners) THEN acc
  ELSE BotOwnersFrom(owners, i + 1,
                     CollectionSet(acc, Prop(owners[i], "id"), UserNew(owners[i])))

\* The owners loop starting at the second owner.
BotOwnersSkipFirst(owners) == BotOwnersFrom(owners, 2, EmptyCollection)

BotOwners(owners) == BotOwnersFrom(owners, 1, EmptyCollection)

\* new Bot(bot): the Bot, or the TypeError of reading length of undefined.
BotNew(bot) ==
  IF ~Has(bot, "owners")
  THEN [thrown |-> TRUE, value |-> TypeError]
  ELSE [thrown |-> FALSE,
        value |-> [type |-> "Bot",
                   id |-> Prop(bot, "id"),
                   username |-> Prop(bot, "username"),
                   discriminator |-> Prop(bot, "discriminator"),
                   shortDescription |-> Prop(bot, "short_description"),
                   fullDescription |-> Prop(bot, "full_description"),
                   avatarURL |-> Prop(bot, "avatar"),
                   invite |-> Prop(bot, "invite"),
                   avatarChildFriendly |-> Prop(bot, "avatarChildFriendly"),
                   library |-> Prop(bot, "library"),
                   prefix |-> Prop(bot, "prefix"),
                   owners |-> BotOwners(bot.owners),
                   vanity |-> Prop(bot, "vanity"),
                   links |-> Prop(bot, "links"),
                   createdAt |-> Prop(bot, "created_at"),
                   updatedAt |-> Prop(bot, "updated_at")]]

getOwners(bot) == bot.owners

\* Date.parse is modelled on the strings listed here and on no other, in a
\* process whose time zone is UTC.  DateStrings are strings V8 reads as a
\* date: an ISO date or timestamp, a written date, a year, "1" to "12" as the
\* first day of that month of 2001, "0" as the year 2000, "32" as the year
\* 2032, "1.5" as the fifth of January 2001.
DateStrings == {"0", "1", "2", "3", "4", "5", "6", "7", "8", "9", "10", "11", "12",
                "32", "2001", "1.5", "Jan 1 2000", "2020-01-01",
                "2020-01-01T00:00:00Z"}

\* Strings for which Date.parse gives NaN.
NonDateStrings == {"", "a", "b", "13", "self", "soon"}

\* The days from the epoch to the day the string t is parsed as (each string
\* of DateStrings is parsed as the start of a day).
DaysOf(t) ==
  CASE t \in {"0", "Jan 1 2000"} -> 10957
    [] t \in {"1", "2001"} -> 11323
    [] t = "1.5" -> 11327
    [] t = "2" -> 11354
    [] t = "3" -> 11382
    [] t = "4" -> 11413
    [] t = "5" -> 11443
    [] t = "6" -> 11474
    [] t = "7" -> 11504
    [] t = "8" -> 11535
    [] t = "9" -> 11566
    [] t = "10" -> 11596
    [] t = "11" -> 11627
    [] t = "12" -> 11657
    [] t \in {"2020-01-01", "2020-01-01T00:00:00Z"} -> 18262
    [] t = "32" -> 22645

\* new Date(t) for a string t of DateStrings or NonDateStrings.
ParsedDate(t) ==
  CASE t \in DateStrings -> DateAt(DaysOf(t), 0)
    [] t \in NonDateStrings -> InvalidDate

\* new Date(v) for a number, string, boolean, null or undefined v: a string
\* is parsed, anything else is converted to a number (null to 0, true to 1,
\* undefined to NaN) and truncated towards zero; NaN gives an Invalid Date.
DateOf(v) ==
  CASE v.k = "number" -> Date(v.n)
    [] v.k = "half" -> Date(IF v.n >= 0 THEN v.n ELSE v.n + 1)
    [] v.k = "null" -> Date(0)
    [] v.k = "boolean" -> Date(v.n)
    [] v.k = "string" -> ParsedDate(v.s)
    [] v.k \in {"undefined", "NaN"} -> InvalidDate

\* What a Bot exposes for a wire field: the accessor's result, or the
\* property itself where the class has no accessor (library).
BotExposes(bot, field) ==
  CASE field = "id" -> bot.id
    [] field = "username" -> bot.username
    [] field = "discriminator" -> bot.discriminator
    [] field = "short_description" -> bot.shortDescription
    [] field = "full_description" -> bot.fullDescription
    [] field = "avatar" -> bot.avatarURL
    [] field = "invite" -> bot.invite
    [] field = "avatarChildFriendly" -> Bool(~Truthy(bot.avatarChildFriendly))
    [] field = "library" -> bot.library
    [] field = "prefix" -> bot.prefix
    [] field = "vanity" -> bot.vanity
    [] field = "links" -> bot.links
    [] field = "created_at" -> DateOf(bot.createdAt)
    [] field = "updated_at" -> DateOf(bot.updatedAt)

(***************************************************************************)
(* The Client.  An operation either throws synchronously or returns a      *)
(* promise after issuing its requests; `then` is what the pending promise  *)
(* keeps: the operation whose handlers will run, the argument they close   *)
(* over, and the phase it is in ("request": the response is awaited).      *)
(***************************************************************************)
Options == [id |-> "self", botToken |-> "bot-token", userToken |-> "user-token"]

BaseURL == "https://api.botlist.space/v1"

Request(method, url) == [method |-> method, url |-> url, query |-> <<>>,
                         headers |-> <<>>, sends |-> <<>>]

Query(req, name, value) ==
  [req EXCEPT !.query = Append(@, [name |-> name, value |-> value])]

SetHeader(req, name, value) ==
  [req EXCEPT !.headers = Append(@, [name |-> name, value |-> value])]

Send(req, data) == [req EXCEPT !.sends = Append(@, data)]

Thrown(error) == [thrown |-> TRUE, error |-> error, requests |-> <<>>]

Returned(op, arg, req) ==
  [thrown |-> FALSE, requests |-> <<req>>,
   then |-> [op |-> op, arg |-> arg, phase |-> "request"]]

getStatistics ==
  Returned("getStatistics", Undefined, Request("GET", <<BaseURL, "/statistics">>))

\* getAllBots without its range check.
getAllBotsNoRange(pageArg) ==
  LET page == Default(pageArg, Num(1)) IN
  IF TypeOf(page) # "number" THEN Thrown(TypeError)
  ELSE Returned("getAllBots", Undefined,
                Query(Request("GET", <<BaseURL, "/bots">>), "page", page))

\* getAllBots asking for the first page whatever its argument.
getAllBotsFirstPage(pageArg) ==
  LET page == Default(pageArg, Num(1)) IN
  IF TypeOf(page) # "number" THEN Thrown(TypeError)
  ELSE IF LessThanOne(page) THEN Thrown(SyntaxError)
  ELSE Returned("getAllBots", Undefined,
                Query(Request("GET", <<BaseURL, "/bots">>), "page", Num(1)))

getAllBots(pageArg) ==
  LET page == Default(pageArg, Num(1)) IN
  IF TypeOf(page) # "number" THEN Thrown(TypeError)
  ELSE IF LessThanOne(page) THEN Thrown(SyntaxError)
  ELSE Returned("getAllBots", Undefined,
                Query(Request("GET", <<BaseURL, "/bots">>), "page", page))

getBot(id) ==
  IF TypeOf(id) # "string" THEN Thrown(TypeError)
  ELSE Returned("getBot", Undefined, Request("GET", <<BaseURL, "/bots/", id.s>>))

getUpvotes(pageArg) ==
  LET page == Default(pageArg, Num(1)) IN
  IF TypeOf(page) # "number" THEN Thrown(TypeError)
  ELSE Returned("getUpvotes", Undefined,
                SetHeader(Query(Request("GET", <<BaseURL, "/bots/", Options.id, "/upvotes">>),
                                "page", page),
                          "Authorization", Options.botToken))

\* hasUpvoted issuing a request of its own besides the one of getUpvotes.
hasUpvotedTwice(userID) ==
  IF TypeOf(userID) # "string" THEN Thrown(TypeError)
  ELSE LET inner == getUpvotes(Undefined) IN
       [inner EXCEPT !.then = [op |-> "hasUpvoted", arg |-> userID, phase |-> "request"],
                     !.requests = @ \o @]

hasUpvoted(userID) ==
  IF TypeOf(userID) # "string" THEN Thrown(TypeError)
  ELSE LET inner == getUpvotes(Undefined) IN
       IF inner.thrown THEN inner
       ELSE [inner EXCEPT !.then = [op |-> "hasUpvoted", arg |-> userID, phase |-> "request"]]

getSelfBot == getBot(Str(Options.id))

\* postServerCount authorizing with the user token and accepting anything.
postServerCountUserToken(count) ==
  LET data == IF IsArray(count) THEN [shards |-> count]
              ELSE [server_count |-> count] IN
  Returned("postServerCount", Undefined,
           Send(SetHeader(Request("POST", <<BaseURL, "/bots/", Options.id>>),
                          "Authorization", Options.userToken),
                data))

postServerCount(count) ==
  IF TypeOf(count) # "number" /\ ~IsArray(count) THEN Thrown(TypeError)
  ELSE LET data == IF IsArray(count) THEN [shards |-> count]
                   ELSE [server_count |-> count] IN
       Returned("postServerCount", Undefined,
                Send(SetHeader(Request("POST", <<BaseURL, "/bots/", Options.id>>),
                               "Authorization", Options.botToken),
                     data))

getUser(id) ==
  IF TypeOf(id) # "string" THEN Thrown(TypeError)
  ELSE Returned("getUser", Undefined, Request("GET", <<BaseURL, "/users/", id.s>>))

getUserBots(id, pageArg) ==
  LET page == Default(pageArg, Num(1)) IN
  IF TypeOf(id) # "string" THEN Thrown(TypeError)
  ELSE IF TypeOf(page) # "number" THEN Thrown(TypeError)
  ELSE IF LessThanOne(page) THEN Thrown(SyntaxError)
  ELSE Returned("getUserBots", Undefined,
                Query(Request("GET", <<BaseURL, "/users/", id.s, "/bots">>),
                      "page", IF Truthy(page) THEN page ELSE Str("1")))

(***************************************************************************)
(* The handlers that run when a request succeeds (then) or fails (catch),  *)
(* each in a turn of its own.  A then-callback resolves the promise or     *)
(* throws; what it throws reaches the catch-callback in a later turn.      *)
(* `requests` are the requests a handler issues.                           *)
(***************************************************************************)
Fulfilled(value) == [state |-> "fulfilled", value |-> value, requests |-> <<>>]

Rejected(error) == [state |-> "rejected", value |-> error, requests |-> <<>>]

PaginationSet(pagination, key, val) ==
  [pagination EXCEPT !.entries = CollectionSet(@, key, val)]

PaginationHas(pagination, key) == CollectionHas(pagination.entries, key)

\* The name of the property that the number i indexes: body[i] is body["i"].
IndexNames == <<"0", "1", "2", "3", "4", "5", "6", "7", "8", "9">>

Index(i) == IndexNames[i + 1]

Wrap(kind, item) == IF kind = "Bot" THEN BotNew(item) ELSE UpvoteNew(item)

\* The loop of a paginated operation from index i (counted from 0) on:
\* pagination.set(body[i].id, new Wrapper(body[list][i])).
RECURSIVE PaginateFrom(_, _, _, _, _)
PaginateFrom(body, list, kind, i, pagination) ==
  IF i >= Len(body[list]) THEN [thrown |-> FALSE, value |-> pagination]
  ELSE IF ~Has(body, Index(i)) THEN [thrown |-> TRUE, value |-> TypeError]
  ELSE LET key == Prop(body[Index(i)], "id")
           wrapped == Wrap(kind, body[list][i + 1]) IN
       IF wrapped.thrown THEN wrapped
       ELSE PaginateFrom(body, list, kind, i + 1,
                         PaginationSet(pagination, key, wrapped.value))

\* The then-callback of a paginated operation: the Pagination, or what it
\* throws.
Paginate(body, list, kind) ==
  IF ~Has(body, list) THEN [thrown |-> TRUE, value |-> TypeError]
  ELSE PaginateFrom(body, list, kind, 0, PaginationNew(body))

\* The callback each operation gives to .then, applied to result.body: the
\* value it resolves the promise with, or what it throws.
getStatisticsThen(body) == [thrown |-> FALSE, value |-> StatisticsNew(body)]

getAllBotsThen(body) == Paginate(body, "bots", "Bot")

getBotThen(body) == BotNew(body)

getUpvotesThen(body) == Paginate(body, "upvotes", "Upvote")

postServerCountThen(body) == [thrown |-> FALSE, value |-> Undefined]

getUserThen(body) == [thrown |-> FALSE, value |-> UserNew(body)]

getUserBotsThen(body) == Paginate(body, "bots", "Bot")

\* The then-callback on the request of `op`: the request of hasUpvoted is the
\* one getUpvotes made, with the handlers of getUpvotes.
Then(op, body) ==
  CASE op = "getStatistics" -> getStatisticsThen(body)
    [] op = "getAllBots" -> getAllBotsThen(body)
    [] op = "getBot" -> getBotThen(body)
    [] op \in {"getUpvotes", "hasUpvoted"} -> getUpvotesThen(body)
    [] op = "postServerCount" -> postServerCountThen(body)
    [] op = "getUser" -> getUserThen(body)
    [] op = "getUserBots" -> getUserBotsThen(body)

\* The callback each operation gives to .catch, applied to the error: what
\* it rejects the promise with.  getStatistics: reject(error, new HTTPError(error)).
Catch(op, error) == IF op = "getStatistics" THEN error ELSE HTTPError(error)

\* The handlers of hasUpvoted on the settled promise of getUpvotes.
hasUpvotedSettle(userID, inner) ==
  IF inner.state = "fulfilled" THEN Fulfilled(Bool(PaginationHas(inner.value, userID)))
  ELSE Rejected(inner.value)

(***************************************************************************)
(* The inputs: the arguments callers pass and the responses the site       *)
(* sends.                                                                  *)
(***************************************************************************)
ItemIds == {"a", "b"}

PageArgs == {Undefined, NaN, Null, Str("2")}
              \cup {Num(i) : i \in -1..MaxPage} \cup {Half(i) : i \in 0..1}

IdArgs == {Str(i) : i \in ItemIds} \cup {Num(1), Undefined}

UserBotsIdArgs == {Str("a"), Num(1)}

CountArgs == {Num(5), NaN, Arr(<<1, 2, 3>>), Arr(<<>>), Str("5"), Undefined, Null}

\* A listed bot, with its owners array and (one of them) without.
Items == {[id |-> Str(i), owners |-> <<>>] : i \in ItemIds} \cup {[id |-> Str("a")]}

\* A listed upvote.
UpvoteItems == {[id |-> Str(i)] : i \in ItemIds}

SeqsUpTo(S, n) == UNION {[1..m -> S] : m \in 0..n}

\* A response envelope: page metadata, the results array under `list`, and
\* the items `numeric` under the property names "0", "1", ...
Envelope(list, items, numeric) ==
  [p \in {"page", list} \cup {Index(i - 1) : i \in 1..Len(numeric)} |->
     IF p = "page" THEN Num(1)
     ELSE IF p = list THEN items
     ELSE numeric[CHOOSE i \in 1..Len(numeric) : Index(i - 1) = p]]

Envelopes(list, listed) ==
  {[page |-> Num(1)]}
    \cup {Envelope(list, items, <<>>) : items \in SeqsUpTo(listed, MaxItems)}
    \cup {Envelope(list, items, items) : items \in SeqsUpTo(listed, MaxItems)}

BotsBodies == Envelopes("bots", Items)

UpvotesBodies == Envelopes("upvotes", UpvoteItems)

ResponseBodies(op) ==
  CASE op \in {"getAllBots", "getUserBots"} -> BotsBodies
    [] op \in {"getUpvotes", "hasUpvoted"} -> UpvotesBodies
    [] op = "getBot" -> Items
    [] op = "getUser" -> {[id |-> Str(i)] : i \in ItemIds}
    [] op = "getStatistics" -> {[servers |-> Num(1)]}
    [] op = "postServerCount" -> {[content |-> Null]}

FailureStatuses == {0, 404, 500}

(***************************************************************************)
(* The state machine of the Client: `inflight` is the bag of pending        *)
(* promises (one copy per request awaiting its response), `last` the last  *)
(* thing that happened: a call and its result, a handler that ran and left *)
(* the promise pending, or the outcome of the promise a handler settled.   *)
(***************************************************************************)
\* n copies of the pending promise `then`.
Pending(then, n) == IF n = 0 THEN EmptyBag ELSE [t \in {then} |-> n]

Call(op, args, result) ==
  /\ BagCardinality(inflight) + Len(result.requests) <= MaxInflight
  /\ inflight' = IF result.thrown THEN inflight
                 ELSE inflight (+) Pending(result.then, Len(result.requests))
  /\ last' = [event |-> "call", op |-> op, args |-> args, result |-> result]
  /\ UNCHANGED <<raw, built>>

CallGetStatistics == Call("getStatistics", <<>>, getStatistics)

CallGetAllBots == \E page \in PageArgs : Call("getAllBots", <<page>>, getAllBots(page))

CallGetBot == \E id \in IdArgs : Call("getBot", <<id>>, getBot(id))

CallGetUpvotes == \E page \in PageArgs : Call("getUpvotes", <<page>>, getUpvotes(page))

CallHasUpvoted == \E userID \in IdArgs : Call("hasUpvoted", <<userID>>, hasUpvoted(userID))

CallGetSelfBot == Call("getSelfBot", <<>>, getSelfBot)

CallPostServerCount ==
  \E count \in CountArgs : Call("postServerCount", <<count>>, postServerCount(count))

CallGetUser == \E id \in IdArgs : Call("getUser", <<id>>, getUser(id))

CallGetUserBots ==
  \E id \in UserBotsIdArgs, page \in PageArgs :
    Call("getUserBots", <<id, page>>, getUserBots(id, page))

\* A handler ran for the pending promise `then` and left it pending, as
\* `next`.
Handled(then, next, response) ==
  /\ inflight' = (inflight (-) Pending(then, 1)) (+) Pending(next, 1)
  /\ last' = [event |-> "handler", op |-> then.op, arg |-> then.arg,
              response |-> response, requests |-> <<>>]
  /\ UNCHANGED <<raw, built>>

\* A handler settled the promise the operation returned.
Finish(then, response, outcome) ==
  /\ inflight' = (inflight (-) Pending(then, 1))
                   (+) Pending([op |-> then.op, arg |-> then.arg, phase |-> "request"],
                               Len(outcome.requests))
  /\ last' = [event |-> "settle", op |-> then.op, arg |-> then.arg,
              response |-> response, outcome |-> outcome]
  /\ UNCHANGED <<raw, built>>

\* resolve or reject, called by a handler of the request: it settles the
\* promise the operation returned, or for hasUpvoted the promise of
\* getUpvotes, whose settlement the handlers of hasUpvoted wait for.
Resolve(then, response, outcome) ==
  IF then.op = "hasUpvoted"
  THEN Handled(then, [op |-> then.op, arg |-> then.arg, phase |-> "inner",
                      response |-> response, inner |-> outcome], response)
  ELSE Finish(then, response, outcome)

\* The request succeeds and the then-callback runs.
Succeed ==
  \E then \in BagToSet(inflight) :
    /\ then.phase = "request"
    /\ \E body \in ResponseBodies(then.op) :
         LET response == [ok |-> TRUE, body |-> body]
             result == Then(then.op, body) IN
         IF result.thrown
         THEN Handled(then, [op |-> then.op, arg |-> then.arg, phase |-> "thrown",
                             response |-> response, error |-> result.value], response)
         ELSE Resolve(then, response, Fulfilled(result.value))

\* The request fails and the catch-callback runs.
Fail ==
  \E then \in BagToSet(inflight) :
    /\ then.phase = "request"
    /\ \E status \in FailureStatuses :
         LET response == [ok |-> FALSE, error |-> TransportError(status)] IN
         Resolve(then, response, Rejected(Catch(then.op, response.error)))

\* The catch-callback runs on what the then-callback threw.
CatchThrown ==
  \E then \in BagToSet(inflight) :
    /\ then.phase = "thrown"
    /\ Resolve(then, then.response, Rejected(Catch(then.op, then.error)))

\* The handlers of hasUpvoted run on the settled promise of getUpvotes.
HasUpvotedSettles ==
  \E then \in BagToSet(inflight) :
    /\ then.phase = "inner"
    /\ Finish(then, then.response, hasUpvotedSettle(then.arg, then.inner))

NotBuilt == [done |-> FALSE]

Init ==
  /\ inflight = EmptyBag
  /\ last = [event |-> "init"]
  /\ raw = [id |-> Str("a")]
  /\ built = NotBuilt

Next ==
  \/ CallGetStatistics
  \/ CallGetAllBots
  \/ CallGetBot
  \/ CallGetUpvotes
  \/ CallHasUpvoted
  \/ CallGetSelfBot
  \/ CallPostServerCount
  \/ CallGetUser
  \/ CallGetUserBots
  \/ Succeed
  \/ Fail
  \/ CatchThrown
  \/ HasUpvotedSettles

Spec == Init /\ [][Next]_vars

(***************************************************************************)
(* The Bot constructor on its own: `raw` is the raw object it is given and *)
(* `built` what the construction gave, once it has run.                    *)
(***************************************************************************)
WireFields == {"id", "username", "discriminator", "short_description",
               "full_description", "avatar", "invite", "avatarChildFriendly",
               "library", "prefix", "owners", "vanity", "links", "created_at",
               "updated_at"}

\* What the site may send as a timestamp.
Timestamps == {Num(1), Half(1), Null, Bool(TRUE), Str("2"), Str("soon"),
               Str("2020-01-01T00:00:00Z")}

WireValue(field) ==
  CASE field = "avatarChildFriendly" -> Bool(TRUE)
    [] field = "vanity" -> Null
    [] OTHER -> Str(field)

OwnerIds == {"u1", "u2"}

RawOwners == {[id |-> Str(i), username |-> Str("owner")] : i \in OwnerIds}

RawBot(present, owners, stamp) ==
  [f \in present |-> IF f = "owners" THEN owners
                     ELSE IF f \in {"created_at", "updated_at"} THEN stamp
                     ELSE WireValue(f)]

\* The raw objects: at most MaxAbsent wire fields are absent, or all are.
RawBots ==
  {RawBot(WireFields \ absent, owners, stamp) :
     absent \in {A \in SUBSET WireFields : Cardinality(A) <= MaxAbsent} \cup {WireFields},
     owners \in SeqsUpTo(RawOwners, MaxOwners),
     stamp \in Timestamps}

Construct ==
  /\ ~built.done
  /\ built' = [done |-> TRUE, result |-> BotNew(raw)]
  /\ UNCHANGED <<inflight, last, raw>>

InitBot ==
  /\ inflight = EmptyBag
  /\ last = [event |-> "init"]
  /\ raw \in RawBots
  /\ built = NotBuilt

NextBot == Construct

SpecBot == InitBot /\ [][NextBot]_vars

(***************************************************************************)
(* Properties.                                                             *)
(***************************************************************************)
Called(op) == last.event = "call" /\ last.op = op

Settled(op) == last.event = "settle" /\ last.op = op

ListOf(op) == IF op = "getUpvotes" THEN "upvotes" ELSE "bots"

KindOf(op) == IF op = "getUpvotes" THEN "Upvote" ELSE "Bot"

DistinctIds(items) ==
  \A i, j \in 1..Len(items) :
    i # j => Prop(items[i], "id") # Prop(items[j], "id")

\* C1: after a successful response whose results array holds items with
\* distinct ids, a paginated operation (getAllBots, getUserBots, getUpvotes)
\* fulfills with a Pagination whose keys are those ids in order, each mapped
\* to the wrapper of its item; the promise is not rejected.
C1_PaginationHoldsTheItems ==
  (/\ last.event = "settle"
   /\ last.op \in {"getAllBots", "getUserBots", "getUpvotes"}
   /\ last.response.ok
   /\ Has(last.response.body, ListOf(last.op))
   /\ DistinctIds(last.response.body[ListOf(last.op)]))
  => LET items == last.response.body[ListOf(last.op)]
         entries == last.outcome.value.entries IN
     /\ last.outcome.state = "fulfilled"
     /\ CollectionKeyArray(entries) = [i \in 1..Len(items) |-> Prop(items[i], "id")]
     /\ \A i \in 1..Len(items) :
          ~Wrap(KindOf(last.op), items[i]).thrown
            => entries[i].val = Wrap(KindOf(last.op), items[i]).value

\* C2: when the request of any operation fails, its promise is rejected with
\* an HTTPError wrapping the transport error.
C2_FailureRejectsWithHTTPError ==
  (last.event = "settle" /\ ~last.response.ok)
  => /\ last.outcome.state = "rejected"
     /\ last.outcome.value = HTTPError(last.response.error)

IsPageOp(op) == op \in {"getAllBots", "getUpvotes", "getUserBots"}

PageArgOf(event) == event.args[Len(event.args)]

IntegerAtLeastOne(v) == v.k = "number" /\ v.n >= 1

\* C3: getAllBots, getUpvotes and getUserBots throw, without issuing a
\* request, when the page they are given is not an integer >= 1.
C3_PageIsValidated ==
  (/\ last.event = "call"
   /\ IsPageOp(last.op)
   /\ PageArgOf(last) # Undefined
   /\ ~IntegerAtLeastOne(PageArgOf(last)))
  => last.result.thrown /\ last.result.requests = <<>>

IsZeroOrNegative(v) == v.k \in {"number", "half"} /\ LessThanOne(v) /\ (v.k = "half" => v.n < 0)

\* The original C4: getAllBots throws, and leaves the requests in flight as
\* they were, for 0, for a negative page and for every page that is not a
\* number.
C4_Original_EveryNonNumberThrows ==
  [][(/\ last'.event = "call"
      /\ last'.op = "getAllBots"
      /\ (IsZeroOrNegative(last'.args[1]) \/ TypeOf(last'.args[1]) # "number"))
     => (/\ last'.result.thrown
         /\ last'.result.requests = <<>>
         /\ inflight' = inflight)]_vars

\* C4 (amended): getAllBots throws, and leaves the requests in flight as
\* they were, for 0, for a negative page and for every page that is not a
\* number other than undefined.
C4_BadPageThrowsWithoutRequest ==
  [][(/\ last'.event = "call"
      /\ last'.op = "getAllBots"
      /\ \/ IsZeroOrNegative(last'.args[1])
         \/ (TypeOf(last'.args[1]) # "number" /\ last'.args[1] # Undefined))
     => (/\ last'.result.thrown
         /\ last'.result.requests = <<>>
         /\ inflight' = inflight)]_vars

C4_Witness ==
  /\ Called("getAllBots")
  /\ last.args[1] = Str("2")
  /\ last.result.thrown
  /\ BagCardinality(inflight) > 0

\* What the promise of getUpvotes settles with after a successful response.
getUpvotesOutcome(body) ==
  IF getUpvotesThen(body).thrown
  THEN Rejected(Catch("getUpvotes", getUpvotesThen(body).value))
  ELSE Fulfilled(getUpvotesThen(body).value)

\* C5: after a successful upvotes response, hasUpvoted(userID) fulfills with
\* true if userID is a key of the collection getUpvotes fulfills with for that
\* response, and with false otherwise.
C5_HasUpvotedAgreesWithGetUpvotes ==
  (Settled("hasUpvoted") /\ last.response.ok /\ Has(last.response.body, "upvotes"))
  => LET upvotes == getUpvotesOutcome(last.response.body) IN
     /\ last.outcome.state = "fulfilled"
     /\ last.outcome.value
          = Bool(upvotes.state = "fulfilled" /\ PaginationHas(upvotes.value, last.arg))

\* C6: in every interleaving, a call that passes validation issues exactly
\* one request (a call that throws issues none), and the handlers that run
\* on a response or a failure issue no request: each leaves its promise
\* pending for the next handler or settles that one promise.
C6_ExactlyOneRequest ==
  [][/\ last'.event = "call"
        => /\ Len(last'.result.requests) = (IF last'.result.thrown THEN 0 ELSE 1)
           /\ BagCardinality(inflight')
                = BagCardinality(inflight) + Len(last'.result.requests)
     /\ last'.event = "handler"
        => /\ last'.requests = <<>>
           /\ BagCardinality(inflight') = BagCardinality(inflight)
     /\ last'.event = "settle"
        => /\ last'.outcome.state \in {"fulfilled", "rejected"}
           /\ last'.outcome.requests = <<>>
           /\ BagCardinality(inflight') = BagCardinality(inflight) - 1]_vars

C6_Witness ==
  /\ Settled("hasUpvoted")
  /\ \E then \in BagToSet(inflight) : then.phase = "thrown"

\* C7: for a page p >= 1, getAllBots(p) issues one GET of /bots whose page
\* query parameter is p; with the argument omitted the parameter is 1.
C7_PageIsQueried ==
  (/\ Called("getAllBots")
   /\ \/ last.args[1] = Undefined
      \/ (last.args[1].k \in {"number", "half"} /\ last.args[1].n >= 1))
  => /\ ~last.result.thrown
     /\ last.result.requests
          = <<[method |-> "GET", url |-> <<BaseURL, "/bots">>,
               query |-> <<[name |-> "page",
                            value |-> IF last.args[1] = Undefined THEN Num(1)
                                      ELSE last.args[1]]>>,
               headers |-> <<>>, sends |-> <<>>]>>

C7_Witness ==
  /\ Called("getAllBots")
  /\ last.args[1] = Num(2)
  /\ Len(last.result.requests) = 1
  /\ last.result.requests[1].query[1].value = Num(2)

\* C8: postServerCount(count) POSTs to /bots/{id} with the bot token as the
\* Authorization header and the body {server_count: count} for a number,
\* {shards: count} for an array; for anything else it throws and sends
\* nothing.
C8_ServerCountIsPosted ==
  Called("postServerCount")
  => LET count == last.args[1]
         post(data) == [method |-> "POST", url |-> <<BaseURL, "/bots/", Options.id>>,
                        query |-> <<>>,
                        headers |-> <<[name |-> "Authorization",
                                       value |-> Options.botToken]>>,
                        sends |-> <<data>>] IN
     CASE TypeOf(count) = "number" ->
            ~last.result.thrown /\ last.result.requests = <<post([server_count |-> count])>>
       [] IsArray(count) ->
            ~last.result.thrown /\ last.result.requests = <<post([shards |-> count])>>
       [] OTHER -> last.result.thrown /\ last.result.requests = <<>>

C8_Witness ==
  /\ Called("postServerCount")
  /\ last.args[1] = Arr(<<1, 2, 3>>)
  /\ Len(last.result.requests) = 1
  /\ last.result.requests[1].sends = <<[shards |-> Arr(<<1, 2, 3>>)]>>

WrappedOwners(owners) ==
  [i \in 1..Len(owners) |-> [key |-> Prop(owners[i], "id"), val |-> UserNew(owners[i])]]

\* The original C9: a Bot built from a raw object with n owners has an owners
\* collection of n entries, the i-th keyed by the id of the i-th raw owner and
\* holding the User wrapped from it.
C9_Original_OneEntryPerOwner ==
  (built.done /\ Has(raw, "owners"))
  => /\ ~built.result.thrown
     /\ Len(CollectionArray(getOwners(built.result.value))) = Len(raw.owners)
     /\ getOwners(built.result.value) = WrappedOwners(raw.owners)

\* C9 (amended): a Bot built from a raw object with n owners whose ids are
\* pairwise distinct has an owners collection of n entries, the i-th keyed by
\* the id of the i-th raw owner and holding the User wrapped from it.
C9_OneEntryPerDistinctOwner ==
  (built.done /\ Has(raw, "owners") /\ DistinctIds(raw.owners))
  => /\ ~built.result.thrown
     /\ Len(CollectionArray(getOwners(built.result.value))) = Len(raw.owners)
     /\ getOwners(built.result.value) = WrappedOwners(raw.owners)

C9_Witness ==
  /\ built.done
  /\ Has(raw, "owners")
  /\ Len(raw.owners) = 2
  /\ DistinctIds(raw.owners)
  /\ ~built.result.thrown
  /\ Len(CollectionArray(getOwners(built.result.value))) = 2

\* C10: building a Bot from a raw object that lacks any of the wire fields
\* (owners included) does not throw, and the Bot exposes undefined for each
\* field that is absent.
C10_AbsentFieldsAreUndefined ==
  built.done
  => /\ ~built.result.thrown
     /\ \A field \in (WireFields \ DOMAIN raw) \ {"owners"} :
          BotExposes(built.result.value, field) = Undefined

====
